---- MODULE Spec2Model ----
(***************************************************************************)
(* codehn (src/main.go): a page handler in front of a TTL cache, and the   *)
(* aggregation run getStories that fetches the items of an identifier list *)
(* in goroutines gated by a buffered-channel semaphore and joined by a     *)
(* sync.WaitGroup.                                                         *)
(*                                                                         *)
(* Every HTTP request is one handler invocation r.  All state of a         *)
(* getStories call (keys, body, stories, wg, semaphore, its goroutines) is *)
(* indexed by the request that made the call.  The cache, the clock and    *)
(* the janitor are process-wide.                                           *)
(*                                                                         *)
(* Shared variables that the goroutines access without synchronisation     *)
(* (body, stories) are read and written in separate steps, one step per    *)
(* memory access, so that every interleaving of the accesses is explored.  *)
(*                                                                         *)
(* wg.Add(1) runs inside the goroutines, concurrently with wg.Wait(); the  *)
(* outcomes sync.WaitGroup has for that are all modelled: Wait returning   *)
(* on a counter of zero, Wait panicking after its release (the handler     *)
(* ends without an answer), and Add panicking in a goroutine (the process  *)
(* ends: alive becomes FALSE and nothing runs any more).                   *)
(***************************************************************************)
EXTENDS Integers, Sequences, FiniteSets, TLC

(***************************************************************************)
(* Bounds of the model.                                                    *)
(***************************************************************************)
\* longest identifier list the upstream serves to a single cold request
MaxKeys == 3
\* identifiers are 1..MaxID
MaxID == 4
\* identifiers of the cache specification are 1..MaxCacheID
MaxCacheID == 2
\* how many identifiers the upstream cannot serve the item of
MaxBroken == 1
\* the literal 30 of src/main.go:89, scaled down
TargetCount == 2
\* the literal 10 of src/main.go:77, scaled down
SemaphoreCap == 2
\* longest identifier list served in the specification with fairness
MaxLiveKeys == 2
\* handler invocations of the cache specification
MaxRequests == 2
\* longest identifier list served in the cache specification
MaxCacheKeys == 1
\* the clock stops at MaxTime (in units of thirty minutes)
MaxTime == 2
\* how many of the four routes are exercised
NumPageTypes == 2

(***************************************************************************)
(* Program constants.  The clock counts units of thirty minutes, so the    *)
(* default expiration of 30*time.Minute is one unit; the janitor's ticker  *)
(* (every 10*time.Minute) fires within every unit.                         *)
(***************************************************************************)
DefaultExpiration == 1

(***************************************************************************)
(* Routes and list endpoints.                                              *)
(***************************************************************************)
baseURL == "https://hacker-news.firebaseio.com/v0/"

AllPageTypes == <<"top", "new", "show", "best">>

\* the routes exercised
PageTypes == {AllPageTypes[i] : i \in 1..NumPageTypes}

\* the tags getStoriesFromType is tried on: those of the four routes, and two
\* that no route passes
Tags == {AllPageTypes[i] : i \in 1..Len(AllPageTypes)} \cup {"ask", ""}

\* the switch without its case "show"
ListURLNoShow(pageType) ==
  CASE pageType = "best" -> <<baseURL, "beststories.json">>
    [] pageType = "new"  -> <<baseURL, "newstories.json">>
    [] OTHER             -> <<baseURL, "topstories.json">>

\* the switch of getStoriesFromType: the URL as <<base, file>>
ListURL(pageType) ==
  CASE pageType = "best" -> <<baseURL, "beststories.json">>
    [] pageType = "new"  -> <<baseURL, "newstories.json">>
    [] pageType = "show" -> <<baseURL, "showstories.json">>
    [] OTHER             -> <<baseURL, "topstories.json">>

\* fmt.Sprintf(baseURL+"v0/item/%d.json", storyKey)
ItemURL(storyKey) == <<baseURL, "v0/", "item/", ToString(storyKey), ".json">>

(***************************************************************************)
(* Strings are sequences of chunks; strings.Contains is a search for a     *)
(* contiguous run of chunks.                                               *)
(***************************************************************************)
Contains(str, sub) ==
  \E i \in 1..(Len(str) - Len(sub) + 1) : SubSeq(str, i, i + Len(sub) - 1) = sub

PathChunks == {"/x/y", "/x", "/github"}

\* url.Parse(u).Hostname(): what stands between the scheme and the path
Hostname(u) ==
  IF u = <<>> \/ u[1] # "https://" THEN <<>>
  ELSE SelectSeq(Tail(u), LAMBDA c : c \notin PathChunks)

\* the eligibility test of getStories
Eligible(u) == Contains(u, <<"github">>) \/ Contains(u, <<"gitlab">>)

(***************************************************************************)
(* The upstream's items: the link of item id.                              *)
(***************************************************************************)
IDs == 1..MaxID

URLOf(id) ==
  CASE id = 1 -> <<"https://", "github", ".com", "/x/y">>
    [] id = 2 -> <<"https://", "gitlab", ".com", "/x">>
    [] id = 3 -> <<"https://", "not", "github", ".example">>
    [] id = 4 -> <<"https://", "example", ".com">>
    [] id = 5 -> <<"https://", "gitlab", ".example", "/x">>
    [] id = 6 -> <<"https://", "gist.", "github", ".com", "/x">>
    [] OTHER  -> <<>>

\* the submission time of every item
TimeOf(id) == 0

(***************************************************************************)
(* Response bodies (JSON texts) and the two json.Unmarshal calls.          *)
(***************************************************************************)
NoBody == [kind |-> "none", ints |-> <<>>, id |-> 0, url |-> <<>>, time |-> 0]

ArrayBody(ks) == [NoBody EXCEPT !.kind = "array", !.ints = ks]

ObjectBody(id) ==
  [NoBody EXCEPT !.kind = "object", !.id = id, !.url = URLOf(id), !.time = TimeOf(id)]

NullBody == [NoBody EXCEPT !.kind = "null"]

\* a text that is no JSON, or a body cut short by a read error
BadBody == [NoBody EXCEPT !.kind = "bad"]

\* the zero value of story
ZeroStory == [ID |-> 0, URL |-> <<>>, Time |-> 0, DomainName |-> <<>>, HumanTime |-> -1]

\* a nil *story (an array slot never written)
NilStory == [ZeroStory EXCEPT !.ID = -1]

\* json.Unmarshal(body, &keys): keys stays nil unless the text is an array
UnmarshalKeys(b) ==
  IF b.kind = "array" THEN [err |-> FALSE, keys |-> b.ints]
  ELSE IF b.kind = "null" THEN [err |-> FALSE, keys |-> <<>>]
  ELSE [err |-> TRUE, keys |-> <<>>]

\* json.Unmarshal(body, s) into a fresh story
UnmarshalStory(b) ==
  IF b.kind = "object"
    THEN [err |-> FALSE,
          s |-> [ZeroStory EXCEPT !.ID = b.id, !.URL = b.url, !.Time = b.time]]
  ELSE IF b.kind = "null" THEN [err |-> FALSE, s |-> ZeroStory]
  ELSE [err |-> TRUE, s |-> ZeroStory]

(***************************************************************************)
(* Slices: a header (array, len, cap) over a heap of backing arrays.       *)
(***************************************************************************)
NilSlice == [arr |-> 0, len |-> 0, cap |-> 0]

\* the capacity append grows a full slice to
GrowCap(cap) == IF cap = 0 THEN 1 ELSE 2 * cap

\* the elements a slice header denotes in heap h
Elems(h, hdr) == [i \in 1..hdr.len |-> h[hdr.arr][i]]

\* append(hdr, s) on heap h: the new heap and the new header
AppendSlice(h, hdr, s) ==
  IF hdr.len < hdr.cap
    THEN [heap |-> [h EXCEPT ![hdr.arr][hdr.len + 1] = s],
          hdr  |-> [hdr EXCEPT !.len = hdr.len + 1]]
    ELSE LET newcap == GrowCap(hdr.cap)
             newarr == [i \in 1..newcap |->
                          IF i <= hdr.len THEN h[hdr.arr][i]
                          ELSE IF i = hdr.len + 1 THEN s ELSE NilStory]
         IN [heap |-> Append(h, newarr),
             hdr  |-> [arr |-> Len(h) + 1, len |-> hdr.len + 1, cap |-> newcap]]

(***************************************************************************)
(* The cache (go-cache as main.go uses it): New at line 38, Get at 201,    *)
(* Set with DefaultExpiration at 220, and the janitor's DeleteExpired.     *)
(* A cached Object is the slice the handler stored: the run whose heap     *)
(* holds its backing array, and the header.                                *)
(***************************************************************************)
NoRef == [run |-> 0, arr |-> 0, len |-> 0, cap |-> 0]

\* the slice value hdr of run r (a nil slice belongs to no run)
SliceRef(r, hdr) ==
  IF hdr.arr = 0 THEN NoRef
  ELSE [run |-> r, arr |-> hdr.arr, len |-> hdr.len, cap |-> hdr.cap]

NoItem == [present |-> FALSE, Object |-> NoRef, Expiration |-> 0]

Expired(item, t) == item.Expiration > 0 /\ t > item.Expiration

\* cash.Get(k) at time t
CacheGet(c, k, t) ==
  IF c[k].present /\ ~Expired(c[k], t)
    THEN [found |-> TRUE, x |-> c[k].Object]
    ELSE [found |-> FALSE, x |-> NoRef]

\* cash.Set(k, x, cache.DefaultExpiration) at time t
CacheSet(c, k, x, t) ==
  [c EXCEPT ![k] = [present |-> TRUE, Object |-> x, Expiration |-> t + DefaultExpiration]]

\* the janitor's sweep at time t
DeleteExpired(c, t) ==
  [k \in DOMAIN c |-> IF c[k].present /\ Expired(c[k], t) THEN NoItem ELSE c[k]]

(***************************************************************************)
(* State.                                                                  *)
(***************************************************************************)
VARIABLES
  cash,       \* the cache: page type -> item
  now,        \* the clock
  sweepDue,   \* the janitor's ticker has fired and its sweep has not run yet
  feed,       \* the upstream: the bodies it may answer a list request with
              \* (lists) and the identifiers whose item it cannot serve
              \* (broken)
  alive,      \* the process is running: no goroutine has died of a panic
  hpc,        \* per request: where its handler stands
  pageType,   \* per request: the route it came in on
  url,        \* per request: the variable url of getStoriesFromType
  s,          \* per request: the handler's variable s
  reply,      \* per request: the status code and the text written
  keys,       \* per run: the decoded identifier list
  idx,        \* per run: position of the range loop in keys
  body,       \* per run: the variable body, shared with the goroutines
  stories,    \* per run: the variable stories, shared with the goroutines
  heap,       \* per run: the backing arrays append has allocated
  wg,         \* per run: the WaitGroup's counter
  semaphore,  \* per run: how many values the channel holds
  tasks       \* per run: the goroutines started, in order of their go statement

vars == <<cash, now, sweepDue, feed, alive, hpc, pageType, url, s, reply, keys, idx, body,
          stories, heap, wg, semaphore, tasks>>

cacheVars == <<cash, now, sweepDue, feed, alive>>
handlerVars == <<hpc, pageType, url, s, reply>>
runVars == <<keys, idx, body, stories, heap, wg, semaphore, tasks>>

Reqs == DOMAIN hpc

\* the handler of request r stands at pc, in a running process
HandlerAt(r, pc) == alive /\ hpc[r] = pc

\* ascending identifier lists of length at most n
KeyLists(n, ids) ==
  {ks \in UNION {[1..m -> ids] : m \in 0..n} :
     \A i \in 1..(Len(ks) - 1) : ks[i] < ks[i + 1]}

\* what the upstream may answer a list request with
ListBodies(n, ids) == {ArrayBody(ks) : ks \in KeyLists(n, ids)} \cup {BadBody}

\* what the upstream may answer the request for item key with, when it
\* answers: the item, or for a broken identifier null or a malformed text
ItemBodies(key, broken) ==
  IF key \in broken THEN {NullBody, BadBody} ELSE {ObjectBody(key)}

\* the upstreams whose lists have at most n identifiers out of ids, and that
\* cannot serve the items of at most m of them
Feeds(n, ids, m) ==
  {[lists |-> ListBodies(n, ids), broken |-> B] :
     B \in {X \in SUBSET ids : Cardinality(X) <= m}}

NoReply == [code |-> 0, text |-> <<>>]

InitRequests(R) ==
  /\ hpc = [r \in R |-> "idle"]
  /\ url = [r \in R |-> <<>>]
  /\ s = [r \in R |-> NoRef]
  /\ reply = [r \in R |-> NoReply]
  /\ keys = [r \in R |-> <<>>]
  /\ idx = [r \in R |-> 1]
  /\ body = [r \in R |-> NoBody]
  /\ stories = [r \in R |-> NilSlice]
  /\ heap = [r \in R |-> <<>>]
  /\ wg = [r \in R |-> 0]
  /\ semaphore = [r \in R |-> 0]
  /\ tasks = [r \in R |-> <<>>]

\* one request for the front page, on a cold cache
Init ==
  /\ cash = [k \in PageTypes |-> NoItem]
  /\ now = 0
  /\ sweepDue = FALSE
  /\ alive = TRUE
  /\ feed \in Feeds(MaxKeys, IDs, MaxBroken)
  /\ pageType = [r \in {1} |-> "top"]
  /\ InitRequests({1})

\* MaxRequests requests, the first for the front page and the others for any
\* route, with the clock running; the upstream serves short lists and
\* cannot serve the item of the last identifier
InitCache ==
  /\ cash = [k \in PageTypes |-> NoItem]
  /\ now = 0
  /\ sweepDue = FALSE
  /\ alive = TRUE
  /\ feed = [lists |-> ListBodies(MaxCacheKeys, 1..MaxCacheID), broken |-> {MaxCacheID}]
  /\ pageType \in {p \in [1..MaxRequests -> PageTypes] : p[1] = "top"}
  /\ InitRequests(1..MaxRequests)

\* one request with any tag, on a cold cache; the upstream serves short lists
InitURL ==
  /\ cash = [k \in Tags |-> NoItem]
  /\ now = 0
  /\ sweepDue = FALSE
  /\ alive = TRUE
  /\ feed \in Feeds(MaxCacheKeys, 1..MaxCacheID, MaxBroken)
  /\ pageType \in [{1} -> Tags]
  /\ InitRequests({1})

\* one request for the front page on a cold cache; the upstream serves short
\* lists
InitLive ==
  /\ cash = [k \in PageTypes |-> NoItem]
  /\ now = 0
  /\ sweepDue = FALSE
  /\ alive = TRUE
  /\ feed \in Feeds(MaxLiveKeys, 1..MaxCacheID, MaxBroken)
  /\ pageType = [r \in {1} |-> "top"]
  /\ InitRequests({1})

(***************************************************************************)
(* pageHandler and getStoriesFromType.                                     *)
(***************************************************************************)
\* the type assertion of line 205 fails, and the handler fetches again
pageHandlerHitAssertFails(r) ==
  /\ HandlerAt(r, "idle")
  /\ CacheGet(cash, pageType[r], now).found
  /\ url' = [url EXCEPT ![r] = ListURL(pageType[r])]
  /\ hpc' = [hpc EXCEPT ![r] = "list"]
  /\ UNCHANGED <<cacheVars, pageType, s, reply, runVars>>

\* the handler takes whatever item the cache holds, expired or not
pageHandlerHitStale(r) ==
  /\ HandlerAt(r, "idle")
  /\ cash[pageType[r]].present
  /\ s' = [s EXCEPT ![r] = cash[pageType[r]].Object]
  /\ hpc' = [hpc EXCEPT ![r] = "render"]
  /\ UNCHANGED <<cacheVars, pageType, url, reply, runVars>>

\* lines 201-206: the cache holds the page; x.(stories) succeeds, every Object
\* of the cache being a stories value
pageHandlerHit(r) ==
  /\ HandlerAt(r, "idle")
  /\ CacheGet(cash, pageType[r], now).found
  /\ s' = [s EXCEPT ![r] = CacheGet(cash, pageType[r], now).x]
  /\ hpc' = [hpc EXCEPT ![r] = "render"]
  /\ UNCHANGED <<cacheVars, pageType, url, reply, runVars>>

\* lines 201-212 and 155-165: a miss; the handler calls getStoriesFromType,
\* which picks the list endpoint of the page type
pageHandlerMiss(r) ==
  /\ HandlerAt(r, "idle")
  /\ ~CacheGet(cash, pageType[r], now).found
  /\ url' = [url EXCEPT ![r] = ListURL(pageType[r])]
  /\ hpc' = [hpc EXCEPT ![r] = "list"]
  /\ UNCHANGED <<cacheVars, pageType, s, reply, runVars>>

\* lines 214-216 and 226-228: the handler answers 500 with text and returns
Answer500(r, text) ==
  /\ hpc' = [hpc EXCEPT ![r] = "done"]
  /\ reply' = [reply EXCEPT ![r] = [code |-> 500, text |-> text]]

\* the handler skips the check of line 213 and stores the nil result
ListGetFailsStored(r) ==
  /\ HandlerAt(r, "list")
  /\ hpc' = [hpc EXCEPT ![r] = "set"]
  /\ UNCHANGED <<cacheVars, pageType, url, s, reply, runVars>>

\* lines 167-170 and 213-217: http.Get of the list fails
ListGetFails(r) ==
  /\ HandlerAt(r, "list")
  /\ Answer500(r, <<"could not get ", pageType[r], " hacker news posts list">>)
  /\ UNCHANGED <<cacheVars, pageType, url, s, runVars>>

\* lines 67-70, 174-176 and 213-217: reading the list body fails
ListReadFails(r) ==
  /\ HandlerAt(r, "list")
  /\ Answer500(r, <<"could not get ", pageType[r], " hacker news posts data">>)
  /\ body' = [body EXCEPT ![r] = BadBody]
  /\ UNCHANGED <<cacheVars, pageType, url, s, keys, idx, stories, heap, wg, semaphore, tasks>>

\* lines 167, 67-83: the list request is answered with b; getStories reads it
\* and decodes it into keys, ignoring what json.Unmarshal returns
ListRead(r, b) ==
  /\ HandlerAt(r, "list")
  /\ body' = [body EXCEPT ![r] = b]
  /\ keys' = [keys EXCEPT ![r] = UnmarshalKeys(b).keys]
  /\ hpc' = [hpc EXCEPT ![r] = "loop"]
  /\ UNCHANGED <<cacheVars, pageType, url, s, reply, idx, stories, heap, wg, semaphore, tasks>>

\* line 150 and 178: getStories returns the slice stories holds now, and
\* getStoriesFromType hands it to the handler
getStoriesReturn(r) ==
  /\ HandlerAt(r, "joined")
  /\ s' = [s EXCEPT ![r] = SliceRef(r, stories[r])]
  /\ hpc' = [hpc EXCEPT ![r] = "set"]
  /\ UNCHANGED <<cacheVars, pageType, url, reply, runVars>>

\* line 220
pageHandlerSet(r) ==
  /\ HandlerAt(r, "set")
  /\ cash' = CacheSet(cash, pageType[r], s[r], now)
  /\ hpc' = [hpc EXCEPT ![r] = "render"]
  /\ UNCHANGED <<now, sweepDue, feed, alive, pageType, url, s, reply, runVars>>

\* lines 224-241: the template is parsed and executed
pageHandlerRender(r) ==
  /\ HandlerAt(r, "render")
  /\ hpc' = [hpc EXCEPT ![r] = "done"]
  /\ reply' = [reply EXCEPT ![r] = [code |-> 200, text |-> <<"page ", pageType[r]>>]]
  /\ UNCHANGED <<cacheVars, pageType, url, s, runVars>>

\* lines 224-229: the template file cannot be parsed
pageHandlerTemplateFails(r) ==
  /\ HandlerAt(r, "render")
  /\ Answer500(r, <<"could not parse template file">>)
  /\ UNCHANGED <<cacheVars, pageType, url, s, runVars>>

(***************************************************************************)
(* getStories: the range loop and the join.                                *)
(***************************************************************************)
NewTask(key) ==
  [pc |-> "go", storyKey |-> key, keyURL |-> <<>>, s |-> ZeroStory, snap |-> NilSlice]

\* the loop without the check of lines 89-91
getStoriesSpawnUnchecked(r) ==
  /\ HandlerAt(r, "loop")
  /\ idx[r] <= Len(keys[r])
  /\ tasks' = [tasks EXCEPT ![r] = Append(@, NewTask(keys[r][idx[r]]))]
  /\ idx' = [idx EXCEPT ![r] = @ + 1]
  /\ UNCHANGED <<cacheVars, handlerVars, keys, body, stories, heap, wg, semaphore>>

\* lines 86-97 and 144: the length check passes and the loop starts a
\* goroutine for keys[idx]; the goroutine's first statement has not run yet
getStoriesSpawn(r) ==
  /\ HandlerAt(r, "loop")
  /\ idx[r] <= Len(keys[r])
  /\ ~(stories[r].len >= TargetCount)
  /\ tasks' = [tasks EXCEPT ![r] = Append(@, NewTask(keys[r][idx[r]]))]
  /\ idx' = [idx EXCEPT ![r] = @ + 1]
  /\ UNCHANGED <<cacheVars, handlerVars, keys, body, stories, heap, wg, semaphore>>

\* lines 86-91: the loop is left, by the break at 30 stories or by the range
\* running out of keys
getStoriesLoopExit(r) ==
  /\ HandlerAt(r, "loop")
  /\ (idx[r] > Len(keys[r]) \/ stories[r].len >= TargetCount)
  /\ hpc' = [hpc EXCEPT ![r] = "wait"]
  /\ UNCHANGED <<cacheVars, pageType, url, s, reply, runVars>>

\* line 148: wg.Wait() returns at once on a zero counter, and parks otherwise
getStoriesWait(r) ==
  /\ HandlerAt(r, "wait")
  /\ hpc' = [hpc EXCEPT ![r] = IF wg[r] = 0 THEN "joined" ELSE "blocked"]
  /\ UNCHANGED <<cacheVars, pageType, url, s, reply, runVars>>

\* line 148: the released wg.Wait() runs again and returns, unless the counter
\* has been raised meanwhile: then it panics ("WaitGroup is reused before
\* previous Wait has returned"); net/http recovers the panic of a handler and
\* drops the connection without an answer
getStoriesWake(r) ==
  /\ HandlerAt(r, "woken")
  /\ hpc' = [hpc EXCEPT ![r] = IF wg[r] = 0 THEN "joined" ELSE "panic"]
  /\ UNCHANGED <<cacheVars, pageType, url, s, reply, runVars>>

(***************************************************************************)
(* The goroutine of lines 97-144, task i of run r.                         *)
(***************************************************************************)
TaskAt(r, i, pc) == alive /\ i \in 1..Len(tasks[r]) /\ tasks[r][i].pc = pc

\* line 100: wg.Add(1).  An Add that finds a waiter on a counter of zero is
\* the misuse sync.WaitGroup panics on ("Add called concurrently with Wait"),
\* and a panic in a goroutine ends the process
TaskAdd(r, i) ==
  /\ TaskAt(r, i, "go")
  /\ wg' = [wg EXCEPT ![r] = @ + 1]
  /\ IF hpc[r] = "blocked" /\ wg[r] = 0
       THEN alive' = FALSE /\ tasks' = tasks
       ELSE alive' = alive /\ tasks' = [tasks EXCEPT ![r][i].pc = "added"]
  /\ UNCHANGED <<cash, now, sweepDue, feed, handlerVars, keys, idx, body, stories,
                 heap, semaphore>>

\* the send never blocks, as on a channel without a bound
TaskAcquireUnbounded(r, i) ==
  /\ TaskAt(r, i, "added")
  /\ semaphore' = [semaphore EXCEPT ![r] = @ + 1]
  /\ tasks' = [tasks EXCEPT ![r][i].pc = "slot",
                            ![r][i].keyURL = ItemURL(tasks[r][i].storyKey)]
  /\ UNCHANGED <<cacheVars, handlerVars, keys, idx, body, stories, heap, wg>>

\* lines 103-116: the send blocks while the channel is full; with the slot
\* the goroutine formats the URL of its item
TaskAcquire(r, i) ==
  /\ TaskAt(r, i, "added")
  /\ semaphore[r] < SemaphoreCap
  /\ semaphore' = [semaphore EXCEPT ![r] = @ + 1]
  /\ tasks' = [tasks EXCEPT ![r][i].pc = "slot",
                            ![r][i].keyURL = ItemURL(tasks[r][i].storyKey)]
  /\ UNCHANGED <<cacheVars, handlerVars, keys, idx, body, stories, heap, wg>>

\* the return of line 119 without the deferred function: the goroutine ends
\* with its slot and its count of the WaitGroup
TaskGetFailsNoDefer(r, i) ==
  /\ TaskAt(r, i, "slot")
  /\ tasks[r][i].storyKey \in feed.broken
  /\ tasks' = [tasks EXCEPT ![r][i].pc = "end"]
  /\ UNCHANGED <<cacheVars, handlerVars, keys, idx, body, stories, heap, wg, semaphore>>

\* lines 117-120: http.Get of the item fails
TaskGetFails(r, i) ==
  /\ TaskAt(r, i, "slot")
  /\ tasks[r][i].storyKey \in feed.broken
  /\ tasks' = [tasks EXCEPT ![r][i].pc = "exit"]
  /\ UNCHANGED <<cacheVars, handlerVars, keys, idx, body, stories, heap, wg, semaphore>>

\* lines 123-126: reading the item body fails; body holds what was read
TaskReadFails(r, i) ==
  /\ TaskAt(r, i, "slot")
  /\ tasks[r][i].storyKey \in feed.broken
  /\ body' = [body EXCEPT ![r] = BadBody]
  /\ tasks' = [tasks EXCEPT ![r][i].pc = "exit"]
  /\ UNCHANGED <<cacheVars, handlerVars, keys, idx, stories, heap, wg, semaphore>>

\* lines 117-123: the item request is answered with b, which the goroutine
\* reads into the variable body of the enclosing getStories
TaskRead(r, i, b) ==
  /\ TaskAt(r, i, "slot")
  /\ body' = [body EXCEPT ![r] = b]
  /\ tasks' = [tasks EXCEPT ![r][i].pc = "read"]
  /\ UNCHANGED <<cacheVars, handlerVars, keys, idx, stories, heap, wg, semaphore>>

\* lines 136-140: the two derived fields
Enrich(st, t) == [st EXCEPT !.HumanTime = t - st.Time, !.DomainName = Hostname(st.URL)]

\* the test of line 135 is left out: every decoded story is kept
TaskDecodeUnfiltered(r, i) ==
  /\ TaskAt(r, i, "read")
  /\ LET u == UnmarshalStory(body[r])
     IN IF ~u.err
          THEN tasks' = [tasks EXCEPT ![r][i].pc = "append",
                                      ![r][i].s = Enrich(u.s, now)]
          ELSE tasks' = [tasks EXCEPT ![r][i].pc = "exit"]
  /\ UNCHANGED <<cacheVars, handlerVars, keys, idx, body, stories, heap, wg, semaphore>>

\* lines 128-140: the goroutine decodes what body holds now, and keeps the
\* story when its URL is eligible
TaskDecode(r, i) ==
  /\ TaskAt(r, i, "read")
  /\ LET u == UnmarshalStory(body[r])
     IN IF ~u.err /\ Eligible(u.s.URL)
          THEN tasks' = [tasks EXCEPT ![r][i].pc = "append",
                                      ![r][i].s = Enrich(u.s, now)]
          ELSE tasks' = [tasks EXCEPT ![r][i].pc = "exit"]
  /\ UNCHANGED <<cacheVars, handlerVars, keys, idx, body, stories, heap, wg, semaphore>>

\* line 141, first half: append reads the slice header of stories
TaskAppendRead(r, i) ==
  /\ TaskAt(r, i, "append")
  /\ tasks' = [tasks EXCEPT ![r][i].pc = "write", ![r][i].snap = stories[r]]
  /\ UNCHANGED <<cacheVars, handlerVars, keys, idx, body, stories, heap, wg, semaphore>>

\* line 141, second half: append stores the element (in place, or in a grown
\* copy) and the goroutine assigns the new header to stories
TaskAppendWrite(r, i) ==
  /\ TaskAt(r, i, "write")
  /\ LET a == AppendSlice(heap[r], tasks[r][i].snap, tasks[r][i].s)
     IN /\ heap' = [heap EXCEPT ![r] = a.heap]
        /\ stories' = [stories EXCEPT ![r] = a.hdr]
  /\ tasks' = [tasks EXCEPT ![r][i].pc = "exit",
                            ![r][i].s = ZeroStory, ![r][i].snap = NilSlice]
  /\ UNCHANGED <<cacheVars, handlerVars, keys, idx, body, wg, semaphore>>

\* line 109: wg.Done() takes one off the counter; the goroutine that brings
\* it to zero while Wait is parked goes on to wake the waiter
TaskDone(r, i) ==
  /\ TaskAt(r, i, "exit")
  /\ wg' = [wg EXCEPT ![r] = @ - 1]
  /\ tasks' = [tasks EXCEPT ![r][i].pc =
                 IF wg[r] - 1 = 0 /\ hpc[r] = "blocked" THEN "zero" ELSE "release"]
  /\ UNCHANGED <<cacheVars, handlerVars, keys, idx, body, stories, heap, semaphore>>

\* line 109, second half: Done clears the waiter count and releases the
\* parked Wait (an Add in between has ended the process, see TaskAdd)
TaskDoneWake(r, i) ==
  /\ TaskAt(r, i, "zero")
  /\ hpc' = [hpc EXCEPT ![r] = "woken"]
  /\ tasks' = [tasks EXCEPT ![r][i].pc = "release"]
  /\ UNCHANGED <<cacheVars, pageType, url, s, reply, keys, idx, body, stories, heap,
                 wg, semaphore>>

\* line 112
TaskRelease(r, i) ==
  /\ TaskAt(r, i, "release")
  /\ semaphore' = [semaphore EXCEPT ![r] = @ - 1]
  /\ tasks' = [tasks EXCEPT ![r][i].pc = "end"]
  /\ UNCHANGED <<cacheVars, handlerVars, keys, idx, body, stories, heap, wg>>

(***************************************************************************)
(* Time and the janitor.                                                   *)
(***************************************************************************)
\* thirty minutes pass, and the janitor's ticker has fired meanwhile
Tick ==
  /\ alive
  /\ now < MaxTime
  /\ now' = now + 1
  /\ sweepDue' = TRUE
  /\ UNCHANGED <<cash, feed, alive, handlerVars, runVars>>

\* the janitor deletes the expired items
Sweep ==
  /\ alive
  /\ sweepDue
  /\ cash' = DeleteExpired(cash, now)
  /\ sweepDue' = FALSE
  /\ UNCHANGED <<now, feed, alive, handlerVars, runVars>>

(***************************************************************************)
(* A run on a list of five eligible items, from its start and from its     *)
(* middle.                                                                 *)
(***************************************************************************)
\* the list of the runs that show what becomes of a returned sequence: five
\* eligible items, all served
FrameKeys == <<1, 2, 3, 5, 6>>

\* one request for the front page on a cold cache, the upstream serving
\* FrameKeys
InitFrameCold ==
  /\ cash = [k \in PageTypes |-> NoItem]
  /\ now = 0
  /\ sweepDue = FALSE
  /\ alive = TRUE
  /\ feed = [lists |-> {ArrayBody(FrameKeys)}, broken |-> {}]
  /\ pageType = [r \in {1} |-> "top"]
  /\ InitRequests({1})

\* the story a goroutine appends for item id, fetched at time 0
FrameStory(id) == Enrich(UnmarshalStory(ObjectBody(id)).s, 0)

\* the heap and the slice after the items of the first n keys were appended
\* one after the other
RECURSIVE FrameAppended(_)
FrameAppended(n) ==
  IF n = 0 THEN [heap |-> <<>>, hdr |-> NilSlice]
  ELSE LET a == FrameAppended(n - 1)
       IN AppendSlice(a.heap, a.hdr, FrameStory(FrameKeys[n]))

\* that run in mid-course: the loop has started a goroutine for each key and
\* wg.Wait() has returned on a counter of zero, before any goroutine had run
\* wg.Add(1); then the goroutines of the first three keys have run to their
\* end, one after the other, and the last two have not run yet
FrameMidRun ==
  /\ cash = [k \in PageTypes |-> NoItem]
  /\ now = 0
  /\ sweepDue = FALSE
  /\ alive = TRUE
  /\ feed = [lists |-> {ArrayBody(FrameKeys)}, broken |-> {}]
  /\ pageType = [r \in {1} |-> "top"]
  /\ hpc = [r \in {1} |-> "joined"]
  /\ url = [r \in {1} |-> ListURL("top")]
  /\ s = [r \in {1} |-> NoRef]
  /\ reply = [r \in {1} |-> NoReply]
  /\ keys = [r \in {1} |-> FrameKeys]
  /\ idx = [r \in {1} |-> Len(FrameKeys) + 1]
  /\ body = [r \in {1} |-> ObjectBody(FrameKeys[3])]
  /\ stories = [r \in {1} |-> FrameAppended(3).hdr]
  /\ heap = [r \in {1} |-> FrameAppended(3).heap]
  /\ wg = [r \in {1} |-> 0]
  /\ semaphore = [r \in {1} |-> 0]
  /\ tasks = [r \in {1} |->
                [i \in 1..Len(FrameKeys) |->
                   IF i <= 3
                     THEN [NewTask(FrameKeys[i]) EXCEPT
                             !.pc = "end", !.keyURL = ItemURL(FrameKeys[i])]
                     ELSE NewTask(FrameKeys[i])]]

InitFrame == FrameMidRun

(***************************************************************************)
(* Specifications.                                                         *)
(***************************************************************************)
Next ==
  \/ \E r \in Reqs : pageHandlerMiss(r)
  \/ \E r \in Reqs : ListGetFails(r)
  \/ \E r \in Reqs : ListReadFails(r)
  \/ \E r \in Reqs : \E b \in feed.lists : ListRead(r, b)
  \/ \E r \in Reqs : getStoriesSpawn(r)
  \/ \E r \in Reqs : getStoriesLoopExit(r)
  \/ \E r \in Reqs : getStoriesWait(r)
  \/ \E r \in Reqs : getStoriesWake(r)
  \/ \E r \in Reqs : getStoriesReturn(r)
  \/ \E r \in Reqs : pageHandlerSet(r)
  \/ \E r \in Reqs : pageHandlerRender(r)
  \/ \E r \in Reqs : pageHandlerTemplateFails(r)
  \/ \E r \in Reqs : \E i \in 1..Len(tasks[r]) : TaskAdd(r, i)
  \/ \E r \in Reqs : \E i \in 1..Len(tasks[r]) : TaskAcquire(r, i)
  \/ \E r \in Reqs : \E i \in 1..Len(tasks[r]) : TaskGetFails(r, i)
  \/ \E r \in Reqs : \E i \in 1..Len(tasks[r]) : TaskReadFails(r, i)
  \/ \E r \in Reqs : \E i \in 1..Len(tasks[r]) :
       \E b \in ItemBodies(tasks[r][i].storyKey, feed.broken) : TaskRead(r, i, b)
  \/ \E r \in Reqs : \E i \in 1..Len(tasks[r]) : TaskDecode(r, i)
  \/ \E r \in Reqs : \E i \in 1..Len(tasks[r]) : TaskAppendRead(r, i)
  \/ \E r \in Reqs : \E i \in 1..Len(tasks[r]) : TaskAppendWrite(r, i)
  \/ \E r \in Reqs : \E i \in 1..Len(tasks[r]) : TaskDone(r, i)
  \/ \E r \in Reqs : \E i \in 1..Len(tasks[r]) : TaskDoneWake(r, i)
  \/ \E r \in Reqs : \E i \in 1..Len(tasks[r]) : TaskRelease(r, i)

Spec == Init /\ [][Next]_vars

NextCache ==
  \/ Next
  \/ \E r \in Reqs : pageHandlerHit(r)
  \/ Tick
  \/ Sweep

SpecCache == InitCache /\ [][NextCache]_vars

SpecURL == InitURL /\ [][Next]_vars

\* the steps of a run whose requests to the upstream all succeed
NextFrameCold ==
  \/ \E r \in Reqs : pageHandlerMiss(r)
  \/ \E r \in Reqs : \E b \in feed.lists : ListRead(r, b)
  \/ \E r \in Reqs : getStoriesSpawn(r)
  \/ \E r \in Reqs : getStoriesLoopExit(r)
  \/ \E r \in Reqs : getStoriesWait(r)
  \/ \E r \in Reqs : getStoriesWake(r)
  \/ \E r \in Reqs : getStoriesReturn(r)
  \/ \E r \in Reqs : pageHandlerSet(r)
  \/ \E r \in Reqs : pageHandlerRender(r)
  \/ \E r \in Reqs : \E i \in 1..Len(tasks[r]) : TaskAdd(r, i)
  \/ \E r \in Reqs : \E i \in 1..Len(tasks[r]) : TaskAcquire(r, i)
  \/ \E r \in Reqs : \E i \in 1..Len(tasks[r]) :
       \E b \in ItemBodies(tasks[r][i].storyKey, feed.broken) : TaskRead(r, i, b)
  \/ \E r \in Reqs : \E i \in 1..Len(tasks[r]) : TaskDecode(r, i)
  \/ \E r \in Reqs : \E i \in 1..Len(tasks[r]) : TaskAppendRead(r, i)
  \/ \E r \in Reqs : \E i \in 1..Len(tasks[r]) : TaskAppendWrite(r, i)
  \/ \E r \in Reqs : \E i \in 1..Len(tasks[r]) : TaskDone(r, i)
  \/ \E r \in Reqs : \E i \in 1..Len(tasks[r]) : TaskDoneWake(r, i)
  \/ \E r \in Reqs : \E i \in 1..Len(tasks[r]) : TaskRelease(r, i)

\* that run from its start; it reaches FrameMidRun
SpecFrameCold == InitFrameCold /\ [][NextFrameCold]_vars

\* the steps left to that run after wg.Wait() has returned
NextFrame ==
  \/ \E r \in Reqs : getStoriesReturn(r)
  \/ \E r \in Reqs : pageHandlerSet(r)
  \/ \E r \in Reqs : pageHandlerRender(r)
  \/ \E r \in Reqs : \E i \in 1..Len(tasks[r]) : TaskAdd(r, i)
  \/ \E r \in Reqs : \E i \in 1..Len(tasks[r]) : TaskAcquire(r, i)
  \/ \E r \in Reqs : \E i \in 1..Len(tasks[r]) :
       \E b \in ItemBodies(tasks[r][i].storyKey, feed.broken) : TaskRead(r, i, b)
  \/ \E r \in Reqs : \E i \in 1..Len(tasks[r]) : TaskDecode(r, i)
  \/ \E r \in Reqs : \E i \in 1..Len(tasks[r]) : TaskAppendRead(r, i)
  \/ \E r \in Reqs : \E i \in 1..Len(tasks[r]) : TaskAppendWrite(r, i)
  \/ \E r \in Reqs : \E i \in 1..Len(tasks[r]) : TaskDone(r, i)
  \/ \E r \in Reqs : \E i \in 1..Len(tasks[r]) : TaskRelease(r, i)

SpecFrame == InitFrame /\ [][NextFrame]_vars

\* the steps of the goroutine that serves request r
HandlerStep(r) ==
  \/ pageHandlerMiss(r)
  \/ ListGetFails(r)
  \/ ListReadFails(r)
  \/ \E b \in feed.lists : ListRead(r, b)
  \/ getStoriesSpawn(r)
  \/ getStoriesLoopExit(r)
  \/ getStoriesWait(r)
  \/ getStoriesWake(r)
  \/ getStoriesReturn(r)
  \/ pageHandlerSet(r)
  \/ pageHandlerRender(r)
  \/ pageHandlerTemplateFails(r)

\* the steps of goroutine i of run r
TaskStep(r, i) ==
  /\ i \in 1..Len(tasks[r])
  /\ \/ TaskAdd(r, i)
     \/ TaskAcquire(r, i)
     \/ TaskGetFails(r, i)
     \/ TaskReadFails(r, i)
     \/ \E b \in ItemBodies(tasks[r][i].storyKey, feed.broken) : TaskRead(r, i, b)
     \/ TaskDecode(r, i)
     \/ TaskAppendRead(r, i)
     \/ TaskAppendWrite(r, i)
     \/ TaskDone(r, i)
     \/ TaskDoneWake(r, i)
     \/ TaskRelease(r, i)

\* the scheduler runs every goroutine that can take a step, and every request
\* to the upstream is answered or fails
Fairness ==
  /\ WF_vars(HandlerStep(1))
  /\ \A i \in 1..MaxLiveKeys : WF_vars(TaskStep(1, i))

SpecLive == InitLive /\ [][Next]_vars /\ Fairness

(***************************************************************************)
(* Vocabulary of the properties.                                           *)
(***************************************************************************)
\* the stories a slice value holds now
RefElems(ref) ==
  IF ref.arr = 0 THEN <<>> ELSE Elems(heap[ref.run], ref)

EligibleID(id) == Eligible(URLOf(id))

\* getStories of request r has just returned s[r] with a nil error
Returned(r) == hpc[r] = "set"

TaskIDs(r) == 1..Len(tasks[r])

\* the list of run r holds no identifier whose item the upstream cannot serve
AllServed(r) == \A i \in 1..Len(keys[r]) : keys[r][i] \notin feed.broken

EligibleKeys(r) == {i \in 1..Len(keys[r]) : EligibleID(keys[r][i])}

\* the tasks of run r that hold a slot of the semaphore
Holding(r) ==
  {i \in TaskIDs(r) :
     tasks[r][i].pc \in {"slot", "read", "append", "write", "exit", "zero", "release"}}

\* the cache item of page type k is younger than its time to live
Live(k) == cash[k].present /\ now < cash[k].Expiration

(***************************************************************************)
(* C1.  The sequence getStories returns, and every sequence in the cache,  *)
(* has at most TargetCount items.                                          *)
(***************************************************************************)
C1_AtMostTarget ==
  /\ \A r \in Reqs : Returned(r) => s[r].len <= TargetCount
  /\ \A k \in PageTypes : cash[k].present => cash[k].Object.len <= TargetCount

(***************************************************************************)
(* C2.  When the list has at least TargetCount identifiers, every item is  *)
(* served and every item is eligible, getStories returns exactly           *)
(* TargetCount items.                                                      *)
(***************************************************************************)
C2_ExactlyTarget ==
  \A r \in Reqs :
    (/\ Returned(r)
     /\ Len(keys[r]) >= TargetCount
     /\ AllServed(r)
     /\ EligibleKeys(r) = 1..Len(keys[r]))
    => s[r].len = TargetCount

(***************************************************************************)
(* C3.  When every item is served and fewer than TargetCount items are     *)
(* eligible, getStories has started a task for every identifier and        *)
(* returns the eligible items, one per eligible identifier.                *)
(***************************************************************************)
C3_AllEligibleReturned ==
  \A r \in Reqs :
    (/\ Returned(r)
     /\ AllServed(r)
     /\ Cardinality(EligibleKeys(r)) < TargetCount)
    => /\ Len(tasks[r]) = Len(keys[r])
       /\ s[r].len = Cardinality(EligibleKeys(r))
       /\ \A i \in EligibleKeys(r) :
            \E j \in 1..s[r].len : RefElems(s[r])[j].ID = keys[r][i]

(***************************************************************************)
(* C4.  At most SemaphoreCap tasks of a run are between their send to the  *)
(* semaphore and their receive from it; so at most SemaphoreCap item       *)
(* requests are in flight.                                                 *)
(***************************************************************************)
C4_ConcurrencyCap ==
  \A r \in Reqs : Cardinality(Holding(r)) <= SemaphoreCap

\* the cap bites: SemaphoreCap requests are in flight and one more task,
\* already started, has to wait
C4_Witness ==
  \E r \in Reqs :
    /\ Cardinality({i \in TaskIDs(r) : tasks[r][i].pc = "slot"}) = SemaphoreCap
    /\ \E i \in TaskIDs(r) : tasks[r][i].pc = "added"

(***************************************************************************)
(* C5.  Once wg.Wait() has returned, every task the run has started is     *)
(* past its wg.Done().                                                     *)
(***************************************************************************)
C5_ReturnAfterAllTasks ==
  \A r \in Reqs :
    hpc[r] \in {"joined", "set", "render", "done"}
    => \A i \in TaskIDs(r) : tasks[r][i].pc \in {"release", "end"}

(***************************************************************************)
(* C6.  Every item of a sequence getStories has returned, and of a         *)
(* sequence in the cache, has a URL containing "github" or "gitlab".       *)
(***************************************************************************)
C6_OnlyEligible ==
  /\ \A r \in Reqs :
       hpc[r] \in {"set", "render", "done"}
       => \A j \in 1..s[r].len : Eligible(RefElems(s[r])[j].URL)
  /\ \A k \in PageTypes :
       cash[k].present
       => \A j \in 1..cash[k].Object.len : Eligible(RefElems(cash[k].Object)[j].URL)

\* a run has returned an item although a task of it has fetched an item that
\* is not eligible
C6_Witness ==
  \E r \in Reqs :
    /\ Returned(r)
    /\ s[r].len >= 1
    /\ \E i \in TaskIDs(r) :
         /\ tasks[r][i].pc = "end"
         /\ tasks[r][i].storyKey \notin feed.broken
         /\ ~EligibleID(tasks[r][i].storyKey)

(***************************************************************************)
(* C7.  When the request for the identifier list fails, the handler        *)
(* answers 500 and stops, and the cache is as it was.                      *)
(***************************************************************************)
C7_ListErrorLeavesCache ==
  [][\A r \in Reqs :
       /\ (hpc[r] = "list" /\ hpc'[r] # "list" /\ body'[r] = body[r])
          => /\ hpc'[r] = "done"
             /\ reply'[r].code = 500
             /\ cash' = cash
       /\ hpc[r] = "done" => (hpc'[r] = "done" /\ reply'[r] = reply[r])]_vars

\* a request has ended on the failed list request while another page is in
\* the cache, and a Get of its own page misses
C7_Witness ==
  \E r \in Reqs :
    /\ hpc[r] = "done"
    /\ reply[r] = [code |-> 500,
                   text |-> <<"could not get ", pageType[r], " hacker news posts list">>]
    /\ ~cash[pageType[r]].present
    /\ \E k \in PageTypes : cash[k].present

(***************************************************************************)
(* C8.  When the list body cannot be decoded into identifiers, the run     *)
(* fails: the handler answers no page and writes no cache entry.           *)
(***************************************************************************)
C8_UndecodableListFails ==
  \A r \in Reqs :
    (body[r].kind = "bad" /\ Len(tasks[r]) = 0)
    => hpc[r] # "render" /\ reply[r].code # 200

(***************************************************************************)
(* C9.  An item that fails leaves out only itself: when all tasks of a run *)
(* have ended before getStories returns, what it returns holds the item of *)
(* every other identifier whose item is served and eligible.               *)
(***************************************************************************)
C9_FailureDropsOnlyItself ==
  \A r \in Reqs :
    (/\ hpc[r] = "joined"
     /\ \A i \in TaskIDs(r) : tasks[r][i].pc = "end"
     /\ \E i \in TaskIDs(r) : tasks[r][i].storyKey \in feed.broken)
    => \A i \in TaskIDs(r) :
         (tasks[r][i].storyKey \notin feed.broken /\ EligibleID(tasks[r][i].storyKey))
         => \E j \in 1..stories[r].len :
              RefElems(SliceRef(r, stories[r]))[j].ID = tasks[r][i].storyKey

(***************************************************************************)
(* C10.  A request that arrives while the cache item of its page is        *)
(* younger than the time to live is served that item's sequence; it reads *)
(* no list and starts no task, then or later.                              *)
(***************************************************************************)
C10_HitServedFromCache ==
  [][\A r \in Reqs :
       /\ (hpc[r] = "idle" /\ hpc'[r] # "idle" /\ Live(pageType[r]))
          => /\ hpc'[r] = "render"
             /\ s'[r] = cash[pageType[r]].Object
             /\ cash' = cash
       /\ (hpc[r] \in {"render", "done"} /\ body[r] = NoBody)
          => /\ hpc'[r] \in {"render", "done"}
             /\ s'[r] = s[r]
             /\ tasks'[r] = <<>>
             /\ body'[r] = NoBody]_vars

\* a request has been answered with the page another request's run has stored:
\* a sequence that is not empty, and no list was ever read for the request
C10_Witness ==
  \E r \in Reqs :
    /\ hpc[r] = "done"
    /\ reply[r].code = 200
    /\ body[r] = NoBody
    /\ s[r].len >= 1
    /\ s[r].run # r
    /\ s[r] = cash[pageType[r]].Object

(***************************************************************************)
(* C11.  A Get answers with an item only while no more than the time to    *)
(* live has passed since its Set; on an item whose time to live has        *)
(* elapsed the handler takes the miss path and fetches again, whether the  *)
(* janitor has removed the item or not.                                    *)
(***************************************************************************)
\* when the item was stored
SetTime(item) == item.Expiration - DefaultExpiration

C11_NoStaleHit ==
  [][\A r \in Reqs :
       (hpc[r] = "idle" /\ hpc'[r] \in {"render", "list"})
       => LET item == cash[pageType[r]]
          IN /\ hpc'[r] = "render"
                => /\ item.present
                   /\ now - SetTime(item) <= DefaultExpiration
                   /\ s'[r] = item.Object
             /\ (item.present /\ now - SetTime(item) > DefaultExpiration)
                => /\ hpc'[r] = "list"
                   /\ s'[r] = s[r]
                   /\ cash' = cash]_vars

\* a request is fetching the list of its page while the item another request
\* has stored for that page is past its time to live and still in the cache
C11_Witness ==
  \E r \in Reqs :
    LET item == cash[pageType[r]]
    IN /\ hpc[r] = "list"
       /\ item.present
       /\ now - SetTime(item) > DefaultExpiration
       /\ item.Object.run \notin {0, r}
       /\ hpc[item.Object.run] = "done"

(***************************************************************************)
(* C12.  getStoriesFromType requests the list of "best", "new" and "show"  *)
(* from their own endpoints and the list of every other tag, "top" and the *)
(* tags it does not know, from the top stories endpoint; picking the       *)
(* endpoint answers nothing to the client.                                 *)
(***************************************************************************)
C12_File(tag) ==
  IF tag = "best" THEN "beststories.json"
  ELSE IF tag = "new" THEN "newstories.json"
  ELSE IF tag = "show" THEN "showstories.json"
  ELSE "topstories.json"

C12_ListEndpoint ==
  \A r \in Reqs :
    /\ hpc[r] # "idle"
       => url[r] = <<"https://hacker-news.firebaseio.com/v0/", C12_File(pageType[r])>>
    /\ hpc[r] = "list" => reply[r] = NoReply

\* the list of a tag that is none of the four has been requested and read
C12_Witness ==
  \E r \in Reqs :
    /\ pageType[r] \notin {"top", "new", "show", "best"}
    /\ hpc[r] = "loop"
    /\ Len(keys[r]) >= 1
    /\ url[r][2] = "topstories.json"

(***************************************************************************)
(* C13.  Appends to the shared result are safe: whenever a task completes  *)
(* its append, the result is what it was with the task's item added at the *)
(* end, so that no item appended earlier is lost or overwritten.           *)
(***************************************************************************)
C13_NoLostAppend ==
  [][\A r \in Reqs :
       (stories'[r] # stories[r] \/ heap'[r] # heap[r])
       => /\ stories'[r].len = stories[r].len + 1
          /\ \A j \in 1..stories[r].len :
               Elems(heap'[r], stories'[r])[j] = Elems(heap[r], stories[r])[j]]_vars

(***************************************************************************)
(* C14.  A task gives back the slot it has taken exactly once, on whatever *)
(* path it ends: the channel holds one value for each task between its     *)
(* send and its receive, and none once all started tasks have ended.       *)
(***************************************************************************)
C14_SlotsReleased ==
  \A r \in Reqs :
    /\ semaphore[r] =
         Cardinality({i \in TaskIDs(r) :
                        tasks[r][i].pc \notin {"go", "added", "end"}})
    /\ (\A i \in TaskIDs(r) : tasks[r][i].pc = "end") => semaphore[r] = 0

\* all tasks of a run have ended, one on a failed request or read, one on an
\* item that is not eligible and one after its append
C14_Witness ==
  \E r \in Reqs :
    /\ Len(tasks[r]) = MaxKeys
    /\ \A i \in TaskIDs(r) : tasks[r][i].pc = "end"
    /\ \E i \in TaskIDs(r) : tasks[r][i].storyKey \in feed.broken
    /\ \E i \in TaskIDs(r) :
         tasks[r][i].storyKey \notin feed.broken /\ ~EligibleID(tasks[r][i].storyKey)
    /\ stories[r].len >= 1
    /\ semaphore[r] = 0

(***************************************************************************)
(* C15.  The loop starts tasks in the order of the identifier list, one    *)
(* per identifier: the identifiers of the started tasks are a prefix of    *)
(* the list.  It starts a task only at a loop check that sees fewer than   *)
(* TargetCount items, and it leaves the loop only when the list is used up *)
(* or a check sees TargetCount items or more.                              *)
(***************************************************************************)
C15_PrefixSpawning ==
  [][\A r \in Reqs :
       /\ Len(tasks'[r]) <= Len(keys'[r])
       /\ \A i \in 1..Len(tasks'[r]) : tasks'[r][i].storyKey = keys'[r][i]
       /\ Len(tasks'[r]) \in {Len(tasks[r]), Len(tasks[r]) + 1}
       /\ Len(tasks'[r]) > Len(tasks[r])
          => (hpc[r] = "loop" /\ stories[r].len < TargetCount)
       /\ (hpc[r] = "loop" /\ hpc'[r] # "loop")
          => (Len(tasks[r]) = Len(keys[r]) \/ stories[r].len >= TargetCount)]_vars

\* the loop has stopped at TargetCount items with identifiers left over
C15_Witness ==
  \E r \in Reqs :
    /\ hpc[r] = "wait"
    /\ Len(tasks[r]) >= 1
    /\ Len(tasks[r]) < Len(keys[r])
    /\ stories[r].len >= TargetCount

(***************************************************************************)
(* C16.  The cache holds one item per page type, and an item changes only  *)
(* by the janitor removing it or by the Set of one request, which stores   *)
(* the sequence its own run has returned.  What a Set stores is the        *)
(* complete result of that run: every task of the run has finished with    *)
(* the result, and the stored sequence is the run's result.                *)
(***************************************************************************)
C16_CacheHoldsCompleteRun ==
  [][/\ \A k \in PageTypes :
          cash'[k] # cash[k]
          => \/ ~cash'[k].present
             \/ \E r \in Reqs :
                  /\ hpc[r] = "set" /\ hpc'[r] = "render" /\ pageType[r] = k
                  /\ cash'[k].Object = s[r]
     /\ \A r \in Reqs :
          (hpc[r] = "set" /\ hpc'[r] = "render")
          => /\ cash'[pageType[r]].present
             /\ cash'[pageType[r]].Object = s[r]
             /\ s[r] = SliceRef(r, stories[r])
             /\ \A i \in TaskIDs(r) :
                  tasks[r][i].pc \in {"exit", "zero", "release", "end"}]_vars

(***************************************************************************)
(* C17.  The item of identifier id is requested at <base>item/<id>.json,   *)
(* <base> being what the list URL of the run has before its file name.     *)
(***************************************************************************)
C17_ItemURLUnderBase ==
  \A r \in Reqs : \A i \in TaskIDs(r) :
    tasks[r][i].keyURL # <<>>
    => tasks[r][i].keyURL =
         <<url[r][1], "item/", ToString(tasks[r][i].storyKey), ".json">>

(***************************************************************************)
(* C18.  A task decodes the body its own request has fetched: the story it *)
(* is about to append has the identifier the task was started for, and so  *)
(* the result never holds two items of one identifier.                     *)
(***************************************************************************)
C18_OwnBody ==
  \A r \in Reqs :
    /\ \A i \in TaskIDs(r) :
         tasks[r][i].pc \in {"append", "write"}
         => tasks[r][i].s.ID = tasks[r][i].storyKey
    /\ \A j, k \in 1..stories[r].len :
         LET e == Elems(heap[r], stories[r])
         IN e[j].ID = e[k].ID => j = k

(***************************************************************************)
(* C19.  Every run terminates: with every goroutine scheduled and every    *)
(* request to the upstream completing, getStories returns to the handler   *)
(* and every task the run has started takes a slot and ends.               *)
(***************************************************************************)
C19_Terminates ==
  <>(/\ hpc[1] \in {"set", "render", "done"}
     /\ \A i \in TaskIDs(1) : tasks[1][i].pc = "end")

(***************************************************************************)
(* C20.  Once getStories has returned a sequence, and once the handler has *)
(* stored it in the cache, the sequence stays as it is: no step of a task  *)
(* changes the items a returned or cached sequence holds.                  *)
(***************************************************************************)
C20_ReturnedImmutable ==
  [][/\ \A r \in Reqs :
          (hpc[r] \in {"set", "render", "done"} /\ s[r].arr # 0)
          => /\ s'[r] = s[r]
             /\ Elems(heap'[s[r].run], s[r]) = Elems(heap[s[r].run], s[r])
     /\ \A k \in PageTypes :
          (cash[k].present /\ cash'[k] = cash[k] /\ cash[k].Object.arr # 0)
          => Elems(heap'[cash[k].Object.run], cash[k].Object)
               = Elems(heap[cash[k].Object.run], cash[k].Object)]_vars

====
